---- MODULE Spec2Model ----
(***************************************************************************)
(* Model of the mcp-x worker processes.                                    *)
(*                                                                         *)
(*   program = "bridge"   src/python_bridge/twikit_service.py: the stdin/  *)
(*                        stdout command bridge and its header-injecting   *)
(*                        transport hook.                                  *)
(*   program = "xservice" src/mcp-x-server: XService with ClientPatcher,   *)
(*                        whose transport hook also signs GraphQL calls.   *)
(*                        TwitterService in src/twikit_mcp_server.py       *)
(*                        carries a textually identical hook.              *)
(*                                                                         *)
(* One behaviour is one run of one program (each program has its own       *)
(* module-global HEADERS_TO_INJECT).                                       *)
(***************************************************************************)
EXTENDS Integers, Sequences, FiniteSets, TLC

VARIABLES
    program,            \* which program this run is
    pc,                 \* position of the program's main coroutine
    HEADERS_TO_INJECT,  \* the module-global header store
    stdoutOpen,         \* the parent still holds the read end of stdout
    readyCount,         \* readiness lines written to stdout
    nout,               \* Result lines written to stdout
    answers,            \* the lines written to stdout since the last input line was read
    nread,              \* input lines read from stdin
    cur,                \* the last input line read
    plan,               \* client calls the running handler still has to make
    inflight,           \* the request handed to the real transport, not yet answered
    signedFor,          \* the token the signer returned for the request in flight (Null: none)
    signCount,          \* invocations of generate_transaction_id so far
    signFailed,         \* the step just taken invoked the signer for a request and it raised
    badSeen,            \* input lines json.loads has rejected so far
    authenticated,      \* XService.authenticated
    hookRaised,         \* the last call of the patched http.request raised to its caller
    nreq,               \* xservice: calls of the patched http.request so far
    stdoutLog,          \* lines of log text (not JSON) written to stdout
    stdinClosed,        \* the parent has closed the write end of stdin: readline returns ''
    tool,               \* xservice: the MCP tool call that is about to return (Null: none)
    x_service,          \* main.x_service: "None" until an XService has been constructed
    patch,              \* functions installed on twikit's ClientTransaction and on
                        \* client.http.request, and the originals the patcher has saved
    cleanupRan          \* the cleanup of the service (of the patcher) has run

vars == <<program, pc, HEADERS_TO_INJECT, stdoutOpen, readyCount, nout, answers,
          nread, cur, plan, inflight, signedFor, signCount, signFailed, badSeen,
          authenticated, hookRaised, nreq, stdoutLog, stdinClosed, tool,
          x_service, patch, cleanupRan>>

\* ---------------------------------------------------------------- bounds
MaxLines == 2
MaxRequests == 3
CountSpan == 2

\* ---------------------------------------------------------------- values
Str(s) == [s |-> s]
None == [none |-> TRUE]
Null == [null |-> TRUE]
NotDict == [notdict |-> TRUE]
NoSign == "none"

Get(d, k, default) == IF k \in DOMAIN d THEN d[k] ELSE default

\* dict.update / d[k] = v
Update(d, e) == [k \in DOMAIN d \cup DOMAIN e |-> IF k \in DOMAIN e THEN e[k] ELSE d[k]]
Put(d, k, v) == [x \in DOMAIN d \cup {k} |-> IF x = k THEN v ELSE d[x]]
EmptyDict == [k \in {} |-> Null]


\* ---------------------------------------------------------------- header names
TID == "x-client-transaction-id"

\* str.lower() on the header names that occur
Lower(k) ==
    CASE k = "Content-Type" -> "content-type"
      [] k = "X-Client-Transaction-Id" -> "x-client-transaction-id"
      [] k = "X-Csrf-Token" -> "x-csrf-token"
      [] OTHER -> k

\* ---------------------------------------------------------------- URLs
\* A URL is host, path segments and query; the URL string is their concatenation.
GQL == "/i/api/graphql/"
Url(host, segs, query) == [host |-> host, segs |-> segs, query |-> query]
UrlString(u) == <<u.host>> \o u.segs \o u.query
Contains(str, part) == \E i \in 1..Len(str) : str[i] = part
urlparse_path(u) == u.segs

Endpoint(name) ==
    CASE name = "CREATE_TWEET" -> Url("https://x.com", <<GQL, "SiM/CreateTweet">>, <<>>)
      [] name = "FAVORITE_TWEET" -> Url("https://x.com", <<GQL, "lI0/FavoriteTweet">>, <<>>)
      [] name = "UNFAVORITE_TWEET" -> Url("https://x.com", <<GQL, "ZYK/UnfavoriteTweet">>, <<>>)
      [] name = "RETWEET" -> Url("https://x.com", <<GQL, "ojP/CreateRetweet">>, <<>>)
      [] name = "DELETE_RETWEET" -> Url("https://x.com", <<GQL, "iQt/DeleteRetweet">>, <<>>)

SearchUrl == Url("https://x.com", <<GQL, "flA/SearchTimeline">>, <<"?variables=q">>)
RestUrl == Url("https://api.x.com", <<"/1.1/", "friendships/create.json">>, <<>>)

\* ---------------------------------------------------------------- signer
\* The transaction signer is opaque: its n-th invocation returns a value that
\* depends on that invocation and on the method and path it was given.
Token(n, method, path) == [n |-> n, method |-> method, path |-> path]

\* str.upper() on the HTTP methods that occur
Upper(m) ==
    CASE m = "post" -> "POST"
      [] m = "get" -> "GET"
      [] OTHER -> m

\* ---------------------------------------------------------------- header merge
\* A merge in which every caller header overrides the injected one
MergeCallerWins(inject, caller) ==
    [k \in DOMAIN inject \cup DOMAIN caller |->
        IF k \in DOMAIN caller THEN caller[k] ELSE inject[k]]

\* for key, value in headers_from_caller.items(): content-type always wins,
\* any other caller key is added only when the injected copy lacks that key.
MergeHeaders(inject, caller) ==
    [k \in DOMAIN inject \cup DOMAIN caller |->
        IF k \in DOMAIN caller /\ (Lower(k) = "content-type" \/ k \notin DOMAIN inject)
        THEN caller[k]
        ELSE inject[k]]

\* twikit_service.patched_http_client_request: the request the real transport gets
BridgeOutbound(inject, method, url, caller) ==
    [method |-> method, url |-> url, caller |-> caller,
     headers |-> MergeHeaders(inject, caller)]

\* ---------------------------------------------------------------- startup inputs
\* cookies_dict keeps insertion order: a sequence of <<name, value>>
CookieJars ==
    { <<>>,
      << <<"auth_token", "a1">>, <<"ct0", "c1">> >>,
      << <<"auth_token", "a1">> >>,
      << <<"auth_token", "a1">>, <<"ct0", "">> >> }

CookieGet(jar, name) ==
    IF \E i \in 1..Len(jar) : jar[i][1] = name
    THEN Str(jar[CHOOSE i \in 1..Len(jar) : jar[i][1] = name][2])
    ELSE None

\* "; ".join(f"{name}={value}" ...): the pairs in order, joined
CookieHeader(jar) == [joined |-> jar]

PlainCommon ==
    [k \in {"authorization", "user-agent", "Content-Type"} |->
        CASE k = "authorization" -> Str("Bearer A")
          [] k = "user-agent" -> Str("Mozilla")
          [] OTHER -> Str("application/x-www-form-urlencoded")]

\* captured headers that themselves carry session entries
SessionCommon ==
    Update(PlainCommon,
        [k \in {"x-csrf-token", "Cookie", TID} |->
            CASE k = "x-csrf-token" -> Str("captured-csrf")
              [] k = "Cookie" -> Str("captured-cookie")
              [] OTHER -> Str("captured-tid")])

CommonHeaderChoices == {EmptyDict, PlainCommon, SessionCommon}

\* Python truthiness of a str-or-None, of a dict, of a list
TruthyStr(v) == v # None /\ v # Str("")
TruthyDict(d) == DOMAIN d # {}
TruthySeq(q) == Len(q) > 0

\* ---------------------------------------------------------------- caller headers
\* Headers the platform client passes to http.request itself.
CallerHeaderChoices ==
    { EmptyDict,
      [k \in {"Content-Type", "x-csrf-token", "Referer"} |->
          CASE k = "Content-Type" -> Str("application/json")
            [] k = "x-csrf-token" -> Str("client-csrf")
            [] OTHER -> Str("https://x.com/home")],
      [k \in {"content-type", "X-Client-Transaction-Id"} |->
          IF k = "content-type" THEN Str("application/json") ELSE Str("dummy")] }

\* ---------------------------------------------------------------- commands
\* An input line as readline returns it, newline included: text that json.loads
\* rejects (a blank line among it), JSON that is no object, or a JSON object obj
\* (a dict with some of the keys id, action, args).
BadLines == { [json |-> "bad", text |-> "not json\n"], [json |-> "bad", text |-> "\n"] }

\* what readline returns at end-of-stream
EofLine == [json |-> "bad", text |-> ""]
ScalarLines == { [json |-> "scalar", text |-> "5"] }

SignedActions ==
    {"postTweet", "likeTweet", "unlikeTweet", "replyToTweet", "retweet", "undoRetweet"}
ActionNames ==
    SignedActions \cup
    {"get_transaction_id", "postTweetWithMedia", "getLikedTweets", "searchTweets",
     "getUserTimeline", "getTweetById", "getUserInfo", "getTweetsByIds",
     "getRetweets", "followUser", "unfollowUser", "deleteTweet"}

\* the argument keys each branch of main reads
UsedKeys(action) ==
    CASE action = "get_transaction_id" -> {"url", "method"}
      [] action = "postTweet" -> {"text"}
      [] action = "postTweetWithMedia" -> {"text", "mediaPath", "mediaType", "altText"}
      [] action \in {"likeTweet", "unlikeTweet", "getTweetById", "retweet",
                     "undoRetweet", "deleteTweet"} -> {"tweetId"}
      [] action \in {"getLikedTweets", "getUserTimeline"} -> {"userId"}
      [] action = "searchTweets" -> {"query"}
      [] action = "replyToTweet" -> {"tweetId", "text"}
      [] action \in {"getUserInfo", "followUser", "unfollowUser"} -> {"username"}
      [] action = "getTweetsByIds" -> {"tweetIds"}
      [] action = "getRetweets" -> {"tweetId"}
      [] OTHER -> {}

ArgValue(k) ==
    CASE k = "url" -> SearchUrl
      [] k = "method" -> Str("post")
      [] OTHER -> Str(k)

FullArgs(action) == [k \in UsedKeys(action) |-> ArgValue(k)]

\* args as sent: every key the action reads, or all but one of them, or no dict
ArgChoices(action) ==
    {FullArgs(action)}
    \cup {[k \in UsedKeys(action) \ {m} |-> ArgValue(k)] : m \in UsedKeys(action)}
    \cup {NotDict}

Command(i, a, g) ==
    [json |-> "object", obj |-> [k \in {"id", "action", "args"} |->
        CASE k = "id" -> Str(i) [] k = "action" -> Str(a) [] OTHER -> g]]

\* every action with every choice of args under one id, a few of them under a
\* second id, and objects that lack id, action or args
ObjectLines ==
    UNION {{Command("id1", a, g) : g \in ArgChoices(a)} : a \in ActionNames \cup {"bogus"}}
    \cup {Command("id2", a, FullArgs(a)) : a \in {"postTweet", "searchTweets", "followUser"}}
    \cup {[json |-> "object", obj |-> [k \in {"action"} |-> Str("searchTweets")]],
          [json |-> "object", obj |-> [k \in {"id"} |-> Str("id1")]],
          [json |-> "object", obj |-> [k \in {"id", "action"} |->
              IF k = "id" THEN Str("id2") ELSE Str("")]]}

Lines == BadLines \cup ScalarLines \cup ObjectLines

\* ---------------------------------------------------------------- results
Failure(rid, msg) == [id |-> rid, success |-> FALSE, error |-> msg]
Ready == [status |-> "ready"]

NoDataActions == {"likeTweet", "unlikeTweet", "retweet", "undoRetweet", "deleteTweet"}

\* response_data of a branch whose client calls all returned
Success(rid, action) ==
    IF action \in NoDataActions
    THEN [id |-> rid, success |-> TRUE]
    ELSE [id |-> rid, success |-> TRUE, data |-> <<"data of ", action>>]

IsResult(r) == "success" \in DOMAIN r

\* ---------------------------------------------------------------- handlers
\* One await of the client: the signer invocation that precedes it in the branch
\* (NoSign when there is none) and the client operation awaited.
Step(sign, call) == [sign |-> sign, call |-> call]

ArgGet(args, k) == Get(args, k, None)

\* The branch of main for `action`: the ValueError it raises on its argument
\* checks, or the awaits it makes in order.
HandlerPlan(action, args) ==
    LET missing(keys) == \E k \in keys : ArgGet(args, k) = None
        steps(q) == [steps |-> q]
        err(m) == [err |-> m]
    IN CASE action = "postTweet" ->
              IF missing({"text"}) THEN err(<<"Missing 'text' for postTweet">>)
              ELSE steps(<<Step("CREATE_TWEET", "create_tweet")>>)
         [] action = "postTweetWithMedia" ->
              IF missing({"text", "mediaPath", "mediaType"})
              THEN err(<<"Missing arguments for postTweetWithMedia">>)
              ELSE steps(<<Step(NoSign, "upload_media")>>
                         \o (IF TruthyStr(ArgGet(args, "altText"))
                             THEN <<Step(NoSign, "create_media_metadata")>> ELSE <<>>)
                         \o <<Step("CREATE_TWEET", "create_tweet")>>)
         [] action = "likeTweet" ->
              IF missing({"tweetId"}) THEN err(<<"Missing 'tweetId' for likeTweet">>)
              ELSE steps(<<Step("FAVORITE_TWEET", "favorite_tweet")>>)
         [] action = "unlikeTweet" ->
              IF missing({"tweetId"}) THEN err(<<"Missing 'tweetId' for unlikeTweet">>)
              ELSE steps(<<Step("UNFAVORITE_TWEET", "unfavorite_tweet")>>)
         [] action = "getLikedTweets" -> steps(<<Step(NoSign, "get_user_tweets")>>)
         [] action = "searchTweets" -> steps(<<Step(NoSign, "search_tweet")>>)
         [] action = "replyToTweet" ->
              IF missing({"tweetId", "text"}) THEN err(<<"Missing arguments for replyToTweet">>)
              ELSE steps(<<Step("CREATE_TWEET", "create_tweet")>>)
         [] action = "getUserTimeline" -> steps(<<Step(NoSign, "get_user_tweets")>>)
         [] action = "getTweetById" -> steps(<<Step(NoSign, "get_tweet_by_id")>>)
         [] action = "getUserInfo" -> steps(<<Step(NoSign, "get_user_by_screen_name")>>)
         [] action = "getTweetsByIds" -> steps(<<Step(NoSign, "get_tweets_by_ids")>>)
         [] action = "retweet" -> steps(<<Step("RETWEET", "retweet")>>)
         [] action = "undoRetweet" -> steps(<<Step("DELETE_RETWEET", "delete_retweet")>>)
         [] action = "getRetweets" -> steps(<<Step(NoSign, "get_retweeters")>>)
         [] action = "followUser" ->
              steps(<<Step(NoSign, "get_user_by_screen_name"), Step(NoSign, "follow_user")>>)
         [] action = "unfollowUser" ->
              steps(<<Step(NoSign, "get_user_by_screen_name"), Step(NoSign, "unfollow_user")>>)
         [] action = "deleteTweet" -> steps(<<Step(NoSign, "delete_tweet")>>)

\* The request a client operation hands to http.request. The operations the
\* bridge signs for post to the endpoint it signs; what the others request is
\* the platform client's business.
ClientRequests(step) ==
    IF step.sign # NoSign
    THEN {[method |-> "POST", url |-> Endpoint(step.sign)]}
    ELSE {[method |-> "GET", url |-> SearchUrl], [method |-> "POST", url |-> RestUrl]}

\* ---------------------------------------------------------------- one run of the coroutine
\* What main does between two suspensions: the injected headers it leaves, whether
\* it invoked the signer (and whether that returned), the request it handed to the
\* transport (Null: none, it built response_data `result` instead) and the awaits
\* left.
Ran(hdrs, signed, token, request, rest, result) ==
    [hdrs |-> hdrs, signed |-> signed, token |-> token, request |-> request,
     rest |-> rest, result |-> result]

Respond(hdrs, result) == Ran(hdrs, 0, Null, Null, <<>>, result)

\* An exception that no except clause of the loop body catches
Escapes(hdrs) == Ran(hdrs, 0, Null, Null, <<>>, Null)

\* A branch that swallows the signer's exception and calls the client anyway
RunStepFailOpen(rid, hdrs, step, rest, signOk, req, caller) ==
    IF step.sign = NoSign \/ ~signOk
    THEN Ran(hdrs, IF step.sign = NoSign THEN 0 ELSE 1, Null,
             BridgeOutbound(hdrs, req.method, req.url, caller), rest, Null)
    ELSE LET tok == Token(signCount + 1, "POST", urlparse_path(Endpoint(step.sign)))
             h2 == Put(hdrs, TID, tok)
         IN Ran(h2, 1, tok, BridgeOutbound(h2, req.method, req.url, caller), rest, Null)

\* A branch that stores the token under the CSRF key of the injected headers
RunStepOverwritingCsrf(rid, hdrs, step, rest, signOk, req, caller) ==
    IF step.sign = NoSign
    THEN Ran(hdrs, 0, Null, BridgeOutbound(hdrs, req.method, req.url, caller), rest, Null)
    ELSE IF ~signOk
    THEN Ran(hdrs, 1, Null, Null, <<>>, Failure(rid, <<"signer error">>))
    ELSE LET tok == Token(signCount + 1, "POST", urlparse_path(Endpoint(step.sign)))
             h2 == Put(Put(hdrs, TID, tok), "x-csrf-token", tok)
         IN Ran(h2, 1, tok, BridgeOutbound(h2, req.method, req.url, caller), rest, Null)

\* A hook that writes its merged header set back:  HEADERS_TO_INJECT = final_headers
RunStepStoringFinalHeaders(rid, hdrs, step, rest, signOk, req, caller) ==
    IF step.sign = NoSign
    THEN Ran(MergeHeaders(hdrs, caller), 0, Null,
             BridgeOutbound(hdrs, req.method, req.url, caller), rest, Null)
    ELSE IF ~signOk
    THEN Ran(hdrs, 1, Null, Null, <<>>, Failure(rid, <<"signer error">>))
    ELSE LET tok == Token(signCount + 1, "POST", urlparse_path(Endpoint(step.sign)))
             h2 == Put(hdrs, TID, tok)
         IN Ran(MergeHeaders(h2, caller), 1, tok,
                BridgeOutbound(h2, req.method, req.url, caller), rest, Null)

\* HEADERS_TO_INJECT['x-client-transaction-id'] = generate_transaction_id(...)
\* followed by  await client.<call>(...)  which reaches the patched http.request.
\* An exception of the signer leaves the try block before the client is called.
RunStep(rid, hdrs, step, rest, signOk, req, caller) ==
    IF step.sign = NoSign
    THEN Ran(hdrs, 0, Null, BridgeOutbound(hdrs, req.method, req.url, caller), rest, Null)
    ELSE IF ~signOk
    THEN Ran(hdrs, 1, Null, Null, <<>>, Failure(rid, <<"signer error">>))
    ELSE LET tok == Token(signCount + 1, "POST", urlparse_path(Endpoint(step.sign)))
             h2 == Put(hdrs, TID, tok)
         IN Ran(h2, 1, tok, BridgeOutbound(h2, req.method, req.url, caller), rest, Null)

\* The get_transaction_id branch: no client call, the token is the Result's data.
RunGetTransactionId(rid, hdrs, args, signOk) ==
    IF args = NotDict \/ "url" \notin DOMAIN args \/ "method" \notin DOMAIN args
    THEN Respond(hdrs, Failure(rid, <<"Missing 'url' or 'method' for get_transaction_id action">>))
    ELSE IF ~signOk
    THEN Ran(hdrs, 1, Null, Null, <<>>,
             Failure(rid, <<"Failed to generate transaction ID: ", "signer error">>))
    ELSE LET tok == Token(signCount + 1, args["method"].s, urlparse_path(args["url"]))
         IN Ran(hdrs, 1, tok, Null, <<>>, [id |-> rid, success |-> TRUE, data |-> tok])

\* A bridge that answers without the correlation id (request_id never assigned)
RequestIdNeverSet(line) == None

\* request_id of the try block: None until command_data.get('id') has run
RequestId(line) == IF line.json = "object" THEN Get(line.obj, "id", None) ELSE None

CmdAction(line) == IF line.json = "object" THEN Get(line.obj, "action", None) ELSE None
CmdArgs(line) == IF line.json = "object" THEN Get(line.obj, "args", EmptyDict) ELSE EmptyDict

\* The try block after json.loads returned (lines 156-282); every exception it
\* raises is an Exception and becomes a failed Result with request_id.
RunParsed(line, hdrs, signOk, req, caller) ==
    LET rid == RequestId(line)
        action == CmdAction(line)
        args == CmdArgs(line)
    IN IF line.json = "scalar"
       THEN Respond(hdrs, Failure(rid, <<"object has no attribute 'get'">>))
       ELSE IF ~TruthyStr(action)
       THEN Respond(hdrs, Failure(rid, <<"Missing 'action' in command">>))
       ELSE IF action.s = "get_transaction_id"
       THEN RunGetTransactionId(rid, hdrs, args, signOk)
       ELSE IF action.s \notin ActionNames
       THEN Respond(hdrs, Failure(rid, <<"Unknown action '", action.s, "'">>))
       ELSE IF args = NotDict
       THEN Respond(hdrs, Failure(rid, <<"object has no attribute 'get'">>))
       ELSE LET p == HandlerPlan(action.s, args)
            IN IF "err" \in DOMAIN p
               THEN Respond(hdrs, Failure(rid, p.err))
               ELSE RunStep(rid, hdrs, Head(p.steps), Tail(p.steps), signOk, req, caller)

\* A loop body without the except json.JSONDecodeError clause and without a
\* generic one for it: the decode error leaves the loop
RunCommandUncaught(line, hdrs, signOk, req, caller) ==
    IF line.json = "bad"
    THEN Escapes(hdrs)
    ELSE RunParsed(line, hdrs, signOk, req, caller)

\* The body of the while loop from json.loads to the first await or to
\* response_data (lines 153-286): json.JSONDecodeError has its own except clause.
RunCommand(line, hdrs, signOk, req, caller) ==
    IF line.json = "bad"
    THEN Respond(hdrs, Failure(RequestId(line), <<"Invalid JSON command: ", line.text>>))
    ELSE RunParsed(line, hdrs, signOk, req, caller)

\* The awaits of a command's branch (none when it answers without the client)
Awaits(line) ==
    LET action == CmdAction(line)
        args == CmdArgs(line)
    IN IF /\ line.json = "object" /\ TruthyStr(action)
          /\ action.s \in ActionNames \ {"get_transaction_id"} /\ args # NotDict
          /\ "steps" \in DOMAIN HandlerPlan(action.s, args)
       THEN HandlerPlan(action.s, args).steps
       ELSE <<>>

\* What the environment decides about the next await: whether the signer returns,
\* which request the client operation makes and the headers it passes.
SignOutcomes(q, line) ==
    IF (q # <<>> /\ Head(q).sign # NoSign) \/ CmdAction(line) = Str("get_transaction_id")
    THEN BOOLEAN ELSE {TRUE}
RequestsOf(q) ==
    IF q # <<>> THEN ClientRequests(Head(q)) ELSE {[method |-> "GET", url |-> SearchUrl]}
CallersOf(q) == IF q # <<>> THEN CallerHeaderChoices ELSE {EmptyDict}

\* send_json_response when the coroutine built a Result, else suspension on the
\* transport; `base` is what this line has been answered with so far.
Continue(base, r) ==
    /\ HEADERS_TO_INJECT' = r.hdrs
    /\ signCount' = signCount + r.signed
    /\ inflight' = r.request
    /\ signedFor' = IF r.request # Null THEN r.token ELSE Null
    /\ signFailed' = (r.signed = 1 /\ r.token = Null)
    /\ plan' = r.rest
    /\ IF r.request # Null
       THEN /\ pc' = "await_http"
            /\ answers' = base
            /\ nout' = nout
       ELSE IF r.result = Null
       THEN /\ answers' = base
            /\ nout' = nout
            /\ pc' = "crashed"
       ELSE IF stdoutOpen
       THEN /\ answers' = Append(base, r.result)
            /\ nout' = nout + 1
            /\ pc' = "read"
       ELSE /\ answers' = base
            /\ nout' = nout
            /\ pc' = "crashed"

\* ---------------------------------------------------------------- bridge: logging
\* A module that logs with the builtin print, whose default file is sys.stdout
print_builtin_file == "stdout"

\* print_stderr: kwargs['file'] = sys.stderr. Every log call of the module is a
\* call of print_stderr, and `print` itself is rebound to it.
print_stderr_file == "stderr"

\* ---------------------------------------------------------------- bridge: startup
\* HEADERS_TO_INJECT.update(common_headers); x-csrf-token only `if ct0_token`;
\* Cookie always.
BridgeInjected(hdrs, common, jar) ==
    LET h1 == Update(hdrs, common)
        ct0_token == CookieGet(jar, "ct0")
        h2 == IF TruthyStr(ct0_token) THEN Put(h1, "x-csrf-token", ct0_token) ELSE h1
    IN Put(h2, "Cookie", CookieHeader(jar))

\* main up to the first readline: what it writes to stdout (Null: nothing), the
\* headers it leaves and whether it goes on to serve.
StartupOutcome(dirOk, authRaises, common, jar, home, ondemand, hasHttp) ==
    IF ~dirOk
    THEN [write |-> Failure(None, <<"Twitter data directory not found: ", "dir">>),
          hdrs |-> HEADERS_TO_INJECT, serve |-> FALSE]
    ELSE IF authRaises
    THEN [write |-> Failure(None, <<"auth error">>),
          hdrs |-> HEADERS_TO_INJECT, serve |-> FALSE]
    ELSE IF ~(TruthyDict(common) /\ TruthySeq(jar) /\ home # "" /\ ondemand # "")
    THEN [write |-> Failure(None, <<"Missing authentication or transaction generator data">>),
          hdrs |-> HEADERS_TO_INJECT, serve |-> FALSE]
    ELSE IF ~hasHttp
    THEN [write |-> Null, hdrs |-> HEADERS_TO_INJECT, serve |-> FALSE]
    ELSE [write |-> Ready, hdrs |-> BridgeInjected(HEADERS_TO_INJECT, common, jar),
          serve |-> TRUE]

BridgeStartup ==
    /\ program = "bridge"
    /\ pc = "start"
    /\ \E dirOk \in BOOLEAN, authRaises \in BOOLEAN, common \in CommonHeaderChoices,
          jar \in CookieJars, home \in {"", "<html>"}, ondemand \in {"", "js"},
          hasHttp \in BOOLEAN :
         LET o == StartupOutcome(dirOk, authRaises, common, jar, home, ondemand, hasHttp)
         IN /\ HEADERS_TO_INJECT' = o.hdrs
            /\ IF o.write = Null
               THEN /\ pc' = "exited"
                    /\ UNCHANGED <<answers, nout, readyCount>>
               ELSE IF ~stdoutOpen
               THEN /\ pc' = "crashed"
                    /\ UNCHANGED <<answers, nout, readyCount>>
               ELSE /\ answers' = Append(answers, o.write)
                    /\ nout' = IF IsResult(o.write) THEN nout + 1 ELSE nout
                    /\ readyCount' = IF o.write = Ready THEN readyCount + 1 ELSE readyCount
                    /\ pc' = IF o.serve THEN "read" ELSE "exited"
    \* every path of the startup logs at least one line (lines 75-131)
    /\ stdoutLog' = IF print_stderr_file = "stdout" THEN 1 ELSE stdoutLog
    /\ UNCHANGED <<program, x_service, patch, cleanupRan, stdinClosed, tool, stdoutOpen, nread, cur, plan, inflight, signedFor,
                   signCount, signFailed, badSeen, authenticated, hookRaised, nreq>>

\* ---------------------------------------------------------------- bridge: serving loop
\* A loop that spawns each handler as a task and goes back to readline at once
CanReadWhileSuspended == pc \in {"read", "await_http"}

\* The loop reads the next line only where it awaits readline: every await of a
\* client call sits inside the loop body, before send_json_response.
CanRead == pc = "read"

\* A loop that strips the line before it tests it: a blank line ends it
EndOfStreamOnBlank(line) == line.json = "bad" /\ line.text \in {"", "\n"}

\* if not line: break   (only the empty string is falsy)
EndOfStream(line) == line.json = "bad" /\ line.text = ""

\* line = await readline(); a non-empty line runs the loop body to its first await
BridgeReadLine ==
    /\ program = "bridge"
    /\ CanRead
    /\ ~stdinClosed
    /\ nread < MaxLines
    /\ \E line \in Lines :
         \E signOk \in SignOutcomes(Awaits(line), line), req \in RequestsOf(Awaits(line)),
            caller \in CallersOf(Awaits(line)) :
            /\ nread' = nread + 1
            /\ cur' = line
            /\ IF EndOfStream(line)
               THEN /\ pc' = "stopped"
                    /\ UNCHANGED <<HEADERS_TO_INJECT, signCount, inflight, signedFor,
                                   signFailed, plan, answers, nout, badSeen>>
               ELSE /\ badSeen' = IF line.json = "bad" THEN badSeen + 1 ELSE badSeen
                    /\ Continue(<<>>, RunCommand(line, HEADERS_TO_INJECT, signOk, req, caller))
    /\ UNCHANGED <<program, x_service, patch, cleanupRan, stdoutLog, stdinClosed, tool, stdoutOpen, readyCount, authenticated, hookRaised, nreq>>

\* readline returns '' once the parent has closed stdin:  if not line: break
BridgeEOF ==
    /\ program = "bridge"
    /\ pc = "read"
    /\ stdinClosed
    /\ EndOfStream(EofLine)
    /\ pc' = "stopped"
    /\ UNCHANGED <<program, x_service, patch, cleanupRan, stdoutLog, stdinClosed, tool, HEADERS_TO_INJECT, stdoutOpen, readyCount, nout, answers,
                   nread, cur, plan, inflight, signedFor, signCount, signFailed, badSeen,
                   authenticated, hookRaised, nreq>>

\* The awaited client call ends: it raised (except Exception), or it returned and
\* the branch goes on to its next await or to response_data.
BridgeHttpReturn ==
    /\ program = "bridge"
    /\ pc = "await_http"
    /\ \E ok \in BOOLEAN, signOk \in SignOutcomes(plan, cur), req \in RequestsOf(plan),
          caller \in CallersOf(plan) :
            LET rid == RequestId(cur)
            IN Continue(answers,
                 IF ~ok
                 THEN Respond(HEADERS_TO_INJECT, Failure(rid, <<"upstream error">>))
                 ELSE IF plan # <<>>
                 THEN RunStep(rid, HEADERS_TO_INJECT, Head(plan), Tail(plan), signOk, req, caller)
                 ELSE Respond(HEADERS_TO_INJECT, Success(rid, CmdAction(cur).s)))
    /\ UNCHANGED <<program, x_service, patch, cleanupRan, stdoutLog, stdinClosed, tool, stdoutOpen, readyCount, nread, cur, badSeen, authenticated,
                   hookRaised, nreq>>

\* The parent process closes its end of stdin: no further line arrives, and the
\* readline the loop awaits next returns ''.
ParentClosesStdin ==
    /\ program = "bridge"
    /\ ~stdinClosed
    /\ pc \in {"start", "read", "await_http"}
    /\ stdinClosed' = TRUE
    /\ UNCHANGED <<program, x_service, patch, cleanupRan, stdoutLog, tool, pc, HEADERS_TO_INJECT, stdoutOpen, readyCount,
                   nout, answers, nread, cur, plan, inflight, signedFor, signCount,
                   signFailed, badSeen, authenticated, hookRaised, nreq>>

\* The parent process closes its end of the pipe: writes to stdout raise from then on.
ParentClosesPipe ==
    /\ program = "bridge"
    /\ stdoutOpen
    /\ pc \in {"start", "read", "await_http"}
    /\ stdoutOpen' = FALSE
    /\ UNCHANGED <<program, x_service, patch, cleanupRan, stdoutLog, stdinClosed, tool, pc, HEADERS_TO_INJECT, readyCount, nout, answers, nread, cur,
                   plan, inflight, signedFor, signCount, signFailed, badSeen, authenticated,
                   hookRaised, nreq>>

\* ---------------------------------------------------------------- ClientPatcher: patches
\* ClientPatcher.__init__: nothing saved yet; the library's own functions installed
Unpatched ==
    [ct_init |-> "twikit", ct_generate_id |-> "twikit", http_request |-> "original",
     original_twikit_ct_init |-> "None", original_twikit_ct_generate_id |-> "None"]

\* ClientPatcher.patch_client: saves whatever is installed on the class, installs
\* the no-ops, then wraps client.http.request or raises AttributeError
patch_client(p, hasHttp) ==
    [ct_init |-> "no_op", ct_generate_id |-> "no_op",
     original_twikit_ct_init |-> p.ct_init,
     original_twikit_ct_generate_id |-> p.ct_generate_id,
     http_request |-> IF hasHttp THEN "patched" ELSE p.http_request]

\* ClientPatcher.cleanup: puts back what was saved, when something was saved
cleanup(p) ==
    [p EXCEPT !.ct_init = IF p.original_twikit_ct_init # "None"
                          THEN p.original_twikit_ct_init ELSE @,
              !.ct_generate_id = IF p.original_twikit_ct_generate_id # "None"
                                 THEN p.original_twikit_ct_generate_id ELSE @]

\* patch_client called on a ClientPatcher, any number of times
PatcherPatchClient ==
    /\ program = "patcher"
    /\ pc \in {"start", "patched"}
    /\ \E hasHttp \in BOOLEAN :
         /\ patch' = patch_client(patch, hasHttp)
         /\ pc' = "patched"
    /\ UNCHANGED <<program, x_service, cleanupRan, stdoutLog, stdinClosed, tool,
                   HEADERS_TO_INJECT, stdoutOpen, readyCount, nout, answers, nread, cur,
                   plan, inflight, signedFor, signCount, signFailed, badSeen,
                   authenticated, hookRaised, nreq>>

\* cleanup called on the ClientPatcher
PatcherCleanup ==
    /\ program = "patcher"
    /\ pc \in {"start", "patched"}
    /\ patch' = cleanup(patch)
    /\ cleanupRan' = TRUE
    /\ pc' = "cleaned"
    /\ UNCHANGED <<program, x_service, stdoutLog, stdinClosed, tool,
                   HEADERS_TO_INJECT, stdoutOpen, readyCount, nout, answers, nread, cur,
                   plan, inflight, signedFor, signCount, signFailed, badSeen,
                   authenticated, hookRaised, nreq>>

\* ---------------------------------------------------------------- XService with ClientPatcher
PatcherUrls == {Endpoint("CREATE_TWEET"), SearchUrl, RestUrl}
Methods == {"POST", "post", "GET"}

\* ClientPatcher.setup_headers: the entries it puts into the global store, given
\* the token the signer returned for POST CreateTweet
SetupHeaders(cookie_header, ct0_token, transaction_id) ==
    [k \in {"Cookie", "x-csrf-token", TID} |->
        CASE k = "Cookie" -> cookie_header
          [] k = "x-csrf-token" -> ct0_token
          [] OTHER -> transaction_id]

\* initialize_client with  self.authenticated = True  moved up to the point where
\* the credentials have been loaded, before the patch, the ct0 check and the headers
XInitOutcomeAuthenticatedEarly(authRaises, common, jar, hasHttp, signOk) ==
    [ok |-> ~authRaises, hdrs |-> HEADERS_TO_INJECT, signed |-> 0]

\* XService.initialize_client: any exception is caught and leaves authenticated
\* False; the store is written only by setup_headers and update_headers.
XInitOutcome(authRaises, common, jar, hasHttp, signOk) ==
    LET ct0_token == CookieGet(jar, "ct0")
        failed(signed) == [ok |-> FALSE, hdrs |-> HEADERS_TO_INJECT, signed |-> signed]
    IN IF authRaises \/ ~hasHttp THEN failed(0)
       ELSE IF ~TruthyStr(ct0_token) THEN failed(0)
       ELSE IF ~signOk THEN failed(1)
       ELSE [ok |-> TRUE, signed |-> 1,
             hdrs |-> Update(Update(HEADERS_TO_INJECT,
                                SetupHeaders(CookieHeader(jar), ct0_token,
                                    Token(signCount + 1, "POST",
                                          urlparse_path(Endpoint("CREATE_TWEET"))))),
                             common)]

\* The patches initialize_client leaves behind: the patcher is created and
\* patch_client called once the authentication data has been loaded.
XInitPatch(authRaises, hasHttp) ==
    IF authRaises THEN patch ELSE patch_client(patch, hasHttp)

\* main.initialize_x_service: XService(...) is constructed (an exception there
\* leaves x_service None), then initialize_client runs; it has no await.
XInitialize ==
    /\ program = "xservice"
    /\ pc = "start"
    /\ \E constructed \in BOOLEAN, authRaises \in BOOLEAN, common \in CommonHeaderChoices,
          jar \in CookieJars, hasHttp \in BOOLEAN, signOk \in BOOLEAN :
         IF ~constructed
         THEN /\ pc' = "failed"
              /\ UNCHANGED <<HEADERS_TO_INJECT, signCount, authenticated, x_service, patch>>
         ELSE LET o == XInitOutcome(authRaises, common, jar, hasHttp, signOk)
              IN /\ x_service' = "XService"
                 /\ patch' = XInitPatch(authRaises, hasHttp)
                 /\ HEADERS_TO_INJECT' = o.hdrs
                 /\ signCount' = signCount + o.signed
                 /\ authenticated' = o.ok
                 /\ pc' = IF o.ok THEN "serving" ELSE "failed"
    /\ UNCHANGED <<program, cleanupRan, stdoutLog, stdinClosed, tool, stdoutOpen, readyCount, nout, answers, nread, cur, plan,
                   inflight, signedFor, signFailed, badSeen, hookRaised, nreq>>

\* ClientPatcher.patched_http_client_request up to its await of the real
\* transport: the merged headers, the fresh token on a GraphQL URL; an exception
\* of the signer is re-raised before the transport is reached.
PatcherOutbound(inject, method, url, caller, signOk, n) ==
    LET final_headers == MergeHeaders(inject, caller)
        request(h) == [method |-> method, url |-> url, caller |-> caller, headers |-> h]
    IN IF Contains(UrlString(url), GQL)
       THEN IF signOk
            THEN LET transaction_id == Token(n, Upper(method), urlparse_path(url))
                 IN [signed |-> 1, token |-> transaction_id,
                     request |-> request(Put(final_headers, TID, transaction_id))]
            ELSE [signed |-> 1, token |-> Null, request |-> Null]
       ELSE [signed |-> 0, token |-> Null, request |-> request(final_headers)]

\* The platform client calls client.http.request(method, url, headers=caller)
XRequest ==
    /\ program = "xservice"
    /\ pc = "serving"
    /\ authenticated
    /\ nreq < MaxRequests
    /\ \E method \in Methods, url \in PatcherUrls, caller \in CallerHeaderChoices :
         \E signOk \in (IF Contains(UrlString(url), GQL) THEN BOOLEAN ELSE {TRUE}) :
            LET o == PatcherOutbound(HEADERS_TO_INJECT, method, url, caller, signOk,
                                     signCount + 1)
            IN /\ signCount' = signCount + o.signed
               /\ signFailed' = (o.signed = 1 /\ o.token = Null)
               /\ signedFor' = o.token
               /\ inflight' = o.request
               /\ hookRaised' = (o.request = Null)
               /\ pc' = IF o.request = Null THEN "serving" ELSE "await_http"
    /\ nreq' = nreq + 1
    /\ UNCHANGED <<program, x_service, patch, cleanupRan, stdoutLog, stdinClosed, tool, HEADERS_TO_INJECT, stdoutOpen, readyCount, nout, answers,
                   nread, cur, plan, badSeen, authenticated>>

\* The real transport answers: its response or its exception goes to the caller.
XHttpReturn ==
    /\ program = "xservice"
    /\ pc = "await_http"
    /\ \E ok \in BOOLEAN : hookRaised' = ~ok
    /\ inflight' = Null
    /\ signedFor' = Null
    /\ signFailed' = FALSE
    /\ pc' = "serving"
    /\ UNCHANGED <<program, x_service, patch, cleanupRan, stdoutLog, stdinClosed, tool, HEADERS_TO_INJECT, stdoutOpen, readyCount, nout, answers,
                   nread, cur, plan, signCount, badSeen, authenticated, nreq>>

\* ---------------------------------------------------------------- MCP tools
\* The attributes XService.__init__ sets on the service object and its methods
XServiceAttributes ==
    {"data_dir", "authenticated", "username", "client", "client_patcher",
     "client_transaction", "auth",
     "initialize_client", "cleanup", "post_tweet", "search_tweets"}

\* str.strip() on the argument strings that occur
Strip(str) == IF str = "  " THEN "" ELSE str

\* validate_id / validate_text / the inline check of the query: a non-empty
\* string with something other than blanks in it
validate_id(id_str) == id_str # "" /\ Strip(id_str) # ""

\* check_x_service: the service object exists and its authenticated flag is set
check_x_service ==
    x_service # "None" /\ "authenticated" \in XServiceAttributes /\ authenticated

\* XService.post_tweet / search_tweets:  if not self.authenticated or not self.client
\* (initialize_client sets authenticated only after it has created the client)
service_ready == authenticated

\* str(count).isdigit() for an int: the decimal text of a negative int starts
\* with '-', which is no digit
IsDigit(count) == count >= 0

Max2(a, b) == IF a >= b THEN a ELSE b
Min2(a, b) == IF a <= b THEN a ELSE b

\* count = max(1, min(20, int(count) if str(count).isdigit() else 10))
ClampCount(count) == Max2(1, Min2(20, IF IsDigit(count) THEN count ELSE 10))

CountInputs == (0 - CountSpan)..(20 + CountSpan)

\* the tools that reach the platform client through the service object, with the
\* client operation each one awaits
ClientTools ==
    {"delete_tweet", "get_tweet_by_id", "retweet", "unfavorite_tweet", "follow_user",
     "send_dm", "get_trends"}

\* the methods of XService that call the client, called on the object itself
ServiceMethods == {"XService.post_tweet", "XService.search_tweets"}

ToolNames == ClientTools \cup {"search_tweets", "post_tweet"} \cup ServiceMethods

\* the argument the tool validates first: an id, a query, a trends category
ToolArgs(name) ==
    IF name = "get_trends" THEN {"trending", "bogus"} ELSE {"", "  ", "1234567890"}

\* the input validation at the head of each tool
ToolArgsValid(name, arg, text, mode) ==
    CASE name = "get_trends" ->
            arg \in {"trending", "for-you", "news", "sports", "entertainment"}
      [] name = "send_dm" -> validate_id(arg) /\ validate_id(text)
      [] name = "search_tweets" ->
            validate_id(arg) /\ mode \in {"Latest", "Top", "People", "Photos", "Videos"}
      [] OTHER -> validate_id(arg)

\* A tool call up to its return of an error dict or its await of the client:
\* `passed` holds the count handed to the service, `calls` the client operations
\* invoked, `clientOk` whether the client operation would succeed.
ToolCall(name, arg, text, count, mode, clientOk) ==
    LET base == [name |-> name, arg |-> arg, text |-> text, count |-> count,
                 mode |-> mode, clientOk |-> clientOk]
        result(status, passed, calls) ==
            [call |-> base, status |-> status, passed |-> passed, calls |-> calls,
             at |-> pc]
        \* the service method the tool awaits, or that is called directly
        service(passed) ==
            IF ~service_ready THEN result("error", {}, 0) ELSE result("awaiting", passed, 1)
    IN IF name \in ServiceMethods
       THEN service(IF name = "XService.search_tweets" THEN {count} ELSE {})
       ELSE IF ~ToolArgsValid(name, arg, text, mode) THEN result("error", {}, 0)
       ELSE IF name = "search_tweets"
       THEN LET clamped == ClampCount(count)
            IN IF ~check_x_service THEN result("error", {}, 0)
               ELSE IF "search_tweets" \notin XServiceAttributes THEN result("error", {}, 0)
               ELSE service({clamped})
       ELSE IF ~check_x_service THEN result("error", {}, 0)
       ELSE IF name = "post_tweet"
       THEN IF "post_tweet" \notin XServiceAttributes THEN result("error", {}, 0)
            ELSE service({})
       \* x_service._client: AttributeError, caught by the tool's except Exception
       ELSE IF "_client" \notin XServiceAttributes THEN result("error", {}, 0)
       ELSE result("awaiting", {}, 1)

\* A tool function is applied to the process's x_service (by FastMCP while the
\* server runs), or a service method is called on the object, in whatever state
\* the service is in: not yet constructed, failed to initialise, or serving.
XToolCall ==
    /\ program = "xservice"
    /\ pc \in {"start", "failed", "serving"}
    /\ tool = Null
    /\ \E name \in ToolNames, clientOk \in BOOLEAN :
         \E arg \in (IF name \in ServiceMethods THEN {"q"} ELSE ToolArgs(name)),
            text \in (IF name = "send_dm" THEN {"", "hello"} ELSE {""}),
            count \in (IF name = "search_tweets" THEN CountInputs
                       ELSE IF name = "XService.search_tweets" THEN {10} ELSE {0}),
            mode \in (IF name = "search_tweets" THEN {"Latest", "bogus"} ELSE {""}) :
            /\ name \in ServiceMethods => x_service # "None"
            /\ LET r == ToolCall(name, arg, text, count, mode, clientOk)
               IN /\ tool' = r
                  /\ pc' = IF r.status = "awaiting" THEN "serving" ELSE "tool"
    /\ UNCHANGED <<program, x_service, patch, cleanupRan, stdoutLog, stdinClosed, HEADERS_TO_INJECT, stdoutOpen, readyCount,
                   nout, answers, nread, cur, plan, inflight, signedFor, signCount,
                   signFailed, badSeen, authenticated, hookRaised, nreq>>

\* The client operation the tool awaits returns or raises (except Exception)
XToolClientReturns ==
    /\ program = "xservice"
    /\ pc = "serving"
    /\ tool # Null
    /\ tool.status = "awaiting"
    /\ tool' = [tool EXCEPT !.status = IF tool.call.clientOk THEN "success" ELSE "error"]
    /\ pc' = "tool"
    /\ UNCHANGED <<program, x_service, patch, cleanupRan, stdoutLog, stdinClosed, HEADERS_TO_INJECT, stdoutOpen, readyCount,
                   nout, answers, nread, cur, plan, inflight, signedFor, signCount,
                   signFailed, badSeen, authenticated, hookRaised, nreq>>

\* The tool returns its dict to FastMCP
XToolReturn ==
    /\ program = "xservice"
    /\ pc = "tool"
    /\ pc' = tool.at
    /\ tool' = Null
    /\ UNCHANGED <<program, x_service, patch, cleanupRan, stdoutLog, stdinClosed, HEADERS_TO_INJECT, stdoutOpen, readyCount,
                   nout, answers, nread, cur, plan, inflight, signedFor, signCount,
                   signFailed, badSeen, authenticated, hookRaised, nreq>>

\* main's finally clause, reached when initialisation failed (main returns) or
\* when the server has ended or raised:  if x_service is not None: cleanup()
XShutdown ==
    /\ program = "xservice"
    /\ pc \in {"failed", "serving"}
    /\ tool = Null
    /\ pc' = "exited"
    /\ IF x_service # "None"
       THEN /\ patch' = cleanup(patch)
            /\ cleanupRan' = TRUE
       ELSE UNCHANGED <<patch, cleanupRan>>
    /\ UNCHANGED <<program, x_service, stdoutLog, stdinClosed, tool, HEADERS_TO_INJECT,
                   stdoutOpen, readyCount, nout, answers, nread, cur, plan, inflight,
                   signedFor, signCount, signFailed, badSeen, authenticated, hookRaised,
                   nreq>>

\* ---------------------------------------------------------------- specifications
Init ==
    /\ program \in {"bridge", "xservice", "patcher"}
    /\ pc = "start"
    /\ HEADERS_TO_INJECT = EmptyDict
    /\ stdoutOpen = TRUE
    /\ readyCount = 0
    /\ nout = 0
    /\ answers = <<>>
    /\ nread = 0
    /\ cur = Null
    /\ plan = <<>>
    /\ inflight = Null
    /\ signedFor = Null
    /\ signCount = 0
    /\ signFailed = FALSE
    /\ badSeen = 0
    /\ authenticated = FALSE
    /\ hookRaised = FALSE
    /\ nreq = 0
    /\ stdoutLog = 0
    /\ stdinClosed = FALSE
    /\ tool = Null
    /\ x_service = "None"
    /\ patch = Unpatched
    /\ cleanupRan = FALSE

Next ==
    \/ BridgeStartup
    \/ BridgeReadLine
    \/ BridgeEOF
    \/ BridgeHttpReturn
    \/ ParentClosesStdin
    \/ XInitialize
    \/ XRequest
    \/ XHttpReturn
    \/ XToolCall
    \/ XToolClientReturns
    \/ XToolReturn
    \/ XShutdown
    \/ PatcherPatchClient
    \/ PatcherCleanup

Spec == Init /\ [][Next]_vars

\* the event loop runs whatever is runnable
FairSpec == Init /\ [][Next]_vars /\ WF_vars(Next)

\* the same programs with a parent that may close the pipe it reads stdout from
NextPipe == Next \/ ParentClosesPipe

PipeSpec == Init /\ [][NextPipe]_vars

\* ================================================================ claims
LastAnswer == answers[Len(answers)]
CommandId(line) ==
    IF line.json = "object" /\ "id" \in DOMAIN line.obj THEN line.obj["id"] ELSE None
Signed(url) == Contains(UrlString(url), GQL)

\* C1: in the serving loop every line read is answered by exactly one Result; it
\* carries the id of the command when the line is a JSON object and null when the
\* line does not parse. While the command's handler is still awaiting the client
\* nothing has been written for it.
C1_OneResultPerLine ==
    (program = "bridge" /\ nread > 0) =>
        /\ pc \in {"read", "await_http", "stopped"}
        /\ pc = "await_http" => (answers = <<>> /\ nout + 1 = nread)
        /\ pc \in {"read", "stopped"} =>
              /\ nout = nread
              /\ Len(answers) = 1
              /\ IsResult(answers[1])
              /\ answers[1].id = CommandId(cur)

\* a second command, with id "id2", answered successfully after its client call
C1_Witness ==
    /\ program = "bridge" /\ pc = "read" /\ nread = 2 /\ nout = 2
    /\ cur.json = "object" /\ CommandId(cur) = Str("id2")
    /\ Len(answers) = 1 /\ answers[1].success /\ answers[1].id = Str("id2")

\* C2: once a line has been rejected by json.loads the bridge is still in its
\* loop (reading, awaiting a client call, or stopped by end-of-stream), every
\* line read has its Result when the loop is back at readline, and the malformed
\* line itself got exactly one failed Result with id null.
C2_MalformedLineAnswered ==
    (program = "bridge" /\ badSeen > 0) =>
        /\ pc \in {"read", "await_http", "stopped"}
        /\ pc \in {"read", "stopped"} => nout = nread
        /\ cur.json = "bad" =>
              /\ pc \in {"read", "stopped"}
              /\ Len(answers) = 1
              /\ answers[1].id = None
              /\ answers[1].success = FALSE

\* a command read after a malformed first line has been answered successfully
C2_Witness ==
    /\ program = "bridge" /\ badSeen = 1 /\ nread = 2 /\ nout = 2 /\ pc = "read"
    /\ cur.json = "object" /\ Len(answers) = 1 /\ answers[1].success

\* C3: after the readiness signal only end-of-stream ends the serving loop: no
\* failure while handling a command or while writing its Result makes the
\* coroutine leave the loop with an exception.
C3_OnlyEofEndsLoop ==
    (program = "bridge" /\ readyCount = 1) => pc # "crashed"

\* C4: the readiness line is written at most once, before any line is read, and
\* only when the injected headers hold the session cookie and the CSRF token.
C4_ReadyOnceAfterHeaders ==
    program = "bridge" =>
        /\ readyCount <= 1
        /\ readyCount = 0 => nread = 0
        /\ readyCount = 1 => {"Cookie", "x-csrf-token"} \subseteq DOMAIN HEADERS_TO_INJECT

\* C5: a bridge that ended in startup wrote exactly one failed Result with id
\* null, no readiness line, and read no command.
C5_StartupFailureReported ==
    (program = "bridge" /\ pc = "exited") =>
        /\ nout = 1
        /\ Len(answers) = 1
        /\ IsResult(answers[1]) /\ answers[1].id = None /\ answers[1].success = FALSE
        /\ readyCount = 0
        /\ nread = 0

\* C6: every request of the bridge to a signed (GraphQL) URL carries the token
\* that the signer returned for this very request, generated for its method and
\* path.
C6_OwnFreshToken ==
    (program = "bridge" /\ inflight # Null /\ Signed(inflight.url)) =>
        /\ signedFor # Null
        /\ TID \in DOMAIN inflight.headers
        /\ inflight.headers[TID] = signedFor
        /\ signedFor.method = Upper(inflight.method)
        /\ signedFor.path = urlparse_path(inflight.url)

\* C7: in the signing middleware every request to a signed URL carries, under
\* every spelling of the transaction-token header name, the token the signer
\* returned for this request and no other value.
C7_SingleFreshToken ==
    (program = "xservice" /\ inflight # Null /\ Signed(inflight.url)) =>
        /\ signedFor # Null
        /\ TID \in DOMAIN inflight.headers
        /\ \A k \in DOMAIN inflight.headers :
              Lower(k) = TID => inflight.headers[k] = signedFor

\* C8: when the signer raises for a request, the transport is not invoked for it
\* (nothing is in flight, the coroutine is not awaiting the transport) and the
\* caller sees a failure: a failed Result with the command's id in the bridge, the
\* re-raised exception in the middleware.
C8_FailClosed ==
    signFailed =>
        /\ inflight = Null
        /\ pc # "await_http"
        /\ program = "bridge" =>
              /\ Len(answers) = 1
              /\ LastAnswer.success = FALSE
              /\ LastAnswer.id = CommandId(cur)
        /\ program = "xservice" => hookRaised

\* the signer raised in a branch of the bridge that signs before calling the client
C8_Witness ==
    /\ program = "bridge" /\ signFailed /\ cur.json = "object"
    /\ CmdAction(cur) \in {Str(a) : a \in SignedActions}
    /\ LastAnswer.success = FALSE

\* C9: the headers handed to the transport hold every caller Content-Type entry
\* verbatim, every injected key other than Content-Type with the injected value
\* (the fresh token instead, for the transaction id on a signed URL of the
\* signing middleware), and a caller entry under another key only when the
\* injected headers do not define that key.
C9_MergePrecedence ==
    inflight # Null =>
        LET final == inflight.headers
            caller == inflight.caller
            fresh(k) == program = "xservice" /\ Signed(inflight.url) /\ k = TID
        IN /\ \A k \in DOMAIN caller :
                 Lower(k) = "content-type" => (k \in DOMAIN final /\ final[k] = caller[k])
           /\ \A k \in DOMAIN HEADERS_TO_INJECT :
                 (Lower(k) # "content-type" /\ ~fresh(k)) =>
                     (k \in DOMAIN final /\ final[k] = HEADERS_TO_INJECT[k])
           /\ \A k \in DOMAIN caller :
                 (Lower(k) # "content-type" /\ ~fresh(k) /\ k \in DOMAIN final
                    /\ final[k] = caller[k] /\ k \in DOMAIN HEADERS_TO_INJECT)
                 => caller[k] = HEADERS_TO_INJECT[k]
           /\ \A k \in DOMAIN final : k \in DOMAIN caller \cup DOMAIN HEADERS_TO_INJECT \cup {TID}

\* a caller that passes Content-Type, a colliding x-csrf-token and a new Referer
C9_Witness ==
    /\ inflight # Null
    /\ {"Content-Type", "x-csrf-token", "Referer"} \subseteq DOMAIN inflight.caller
    /\ {"Content-Type", "x-csrf-token"} \subseteq DOMAIN HEADERS_TO_INJECT
    /\ inflight.headers["Content-Type"] = Str("application/json")
    /\ inflight.headers["x-csrf-token"] # inflight.caller["x-csrf-token"]
    /\ inflight.headers["Referer"] = inflight.caller["Referer"]

C11_ExactlyNResultLines ==
    (program = "bridge" /\ readyCount = 1) =>
        /\ stdoutLog = 0
        /\ nout <= nread
        /\ nread <= nout + 1
        /\ pc \in {"read", "stopped"} => nout = nread
        /\ \A i \in 1..Len(answers) :
              IF nread = 0 THEN answers[i] = Ready ELSE IsResult(answers[i])

\* both commands of a run answered, the stream ended, the log lines of the
\* startup all on stderr
C11_Witness ==
    /\ program = "bridge" /\ pc = "stopped" /\ readyCount = 1
    /\ nread = 2 /\ nout = 2 /\ stdoutLog = 0

\* C12: every Result written for a command has a data field exactly when
\* success is true and an error field exactly when success is false.
C12_DataIffSuccess ==
    (program = "bridge" /\ nread > 0) =>
        \A i \in 1..Len(answers) :
            /\ ("data" \in DOMAIN answers[i]) <=> answers[i].success
            /\ ("error" \in DOMAIN answers[i]) <=> ~answers[i].success

\* the line read holds a JSON object with a non-empty action no branch handles
UnknownAction(line) ==
    /\ line.json = "object"
    /\ TruthyStr(CmdAction(line))
    /\ CmdAction(line).s \notin ActionNames

\* C13: reading a command with an unregistered action writes the Result
\* {id, success: false, error: "unknown action '<action>'"} at once, hands
\* nothing to the transport, invokes no signer and leaves the injected headers
\* as they were.
C13_UnknownActionResult ==
    [][(program = "bridge" /\ nread' = nread + 1 /\ UnknownAction(cur')) =>
          /\ answers' = <<Failure(CommandId(cur'),
                                  <<"unknown action '", CmdAction(cur').s, "'">>)>>
          /\ pc' = "read"
          /\ inflight' = Null
          /\ signCount' = signCount
          /\ HEADERS_TO_INJECT' = HEADERS_TO_INJECT]_vars

\* C14: a command that is a JSON object without an action is answered with
\* {id: <its own id>, success: false, error: "missing action"}.
C14_MissingActionResult ==
    (program = "bridge" /\ nread > 0 /\ cur.json = "object"
       /\ "action" \notin DOMAIN cur.obj) =>
        answers = <<Failure(CommandId(cur), <<"missing action">>)>>

\* C15: a line that json.loads rejects is answered with exactly
\* {id: null, success: false, error: "invalid command"}, whatever the line holds.
C15_InvalidCommandResult ==
    (program = "bridge" /\ nread > 0 /\ cur.json = "bad") =>
        answers = <<Failure(None, <<"invalid command">>)>>

\* the argument keys an action cannot do without (altText is optional)
RequiredKeys(action) == UsedKeys(action) \ {"altText"}

\* C16: reading a command of a registered action that lacks one of the action's
\* required argument keys writes a failed Result at once: nothing is handed to
\* the transport and the signer is not invoked.
C16_MissingArgFailsEarly ==
    [][(/\ program = "bridge" /\ nread' = nread + 1
        /\ cur'.json = "object" /\ TruthyStr(CmdAction(cur'))
        /\ CmdAction(cur').s \in ActionNames
        /\ CmdArgs(cur') # NotDict
        /\ RequiredKeys(CmdAction(cur').s) \ DOMAIN CmdArgs(cur') # {}) =>
          /\ pc' = "read"
          /\ inflight' = Null
          /\ signCount' = signCount
          /\ Len(answers') = 1
          /\ answers'[1].success = FALSE]_vars

\* C17: neither program is ever ready (bridge: readiness line written; service:
\* authenticated) with injected headers that have no x-csrf-token.
C17_NoReadyWithoutCsrf ==
    ((program = "bridge" /\ readyCount = 1) \/ (program = "xservice" /\ authenticated))
        => "x-csrf-token" \in DOMAIN HEADERS_TO_INJECT

\* how far a serving bridge is from having stopped: the awaits its handler still
\* has to get through, then the readline that returns ''
Remaining ==
    CASE pc = "stopped" -> 0
      [] pc = "read" -> 1
      [] OTHER -> 2 + Len(plan)

\* C18: a stopped bridge has seen end-of-stream and has written the Result of
\* every line it read (a blank line is a line: it is answered, it does not stop
\* the loop); once stopped it writes nothing more; and once the parent has closed
\* stdin a serving bridge does stop: until it has, the loop always has a step to
\* take (the handler in flight resumes, or readline returns '') and every step
\* brings it nearer to the stop.
C18_StopsAtEndOfStream ==
    /\ []((program = "bridge" /\ pc = "stopped") => (stdinClosed /\ nout = nread))
    /\ [][(program = "bridge" /\ pc = "stopped") =>
             (pc' = "stopped" /\ nout' = nout /\ answers' = answers)]_vars
    /\ []((program = "bridge" /\ readyCount = 1 /\ stdinClosed /\ pc # "stopped") =>
             ENABLED (BridgeEOF \/ BridgeHttpReturn))
    /\ [][(program = "bridge" /\ readyCount = 1 /\ stdinClosed) =>
             Remaining' < Remaining]_vars

\* a blank second line was answered and the loop stopped at end-of-stream only
C18_Witness ==
    /\ program = "bridge" /\ pc = "stopped" /\ stdinClosed
    /\ nread = 2 /\ nout = 2 /\ cur = [json |-> "bad", text |-> "\n"]
    /\ Len(answers) = 1 /\ answers[1].success = FALSE

\* the count the documentation of search_tweets promises: the requested count
\* clamped into [1, 20]
ClampedInto(count) == IF count < 1 THEN 1 ELSE IF count > 20 THEN 20 ELSE count

\* C19: whenever search_tweets has called the service, the count it passed is the
\* requested count clamped into [1, 20], negative requests included.
C19_CountClamped ==
    (program = "xservice" /\ tool # Null /\ tool.call.name = "search_tweets"
       /\ tool.calls = 1) =>
        /\ tool.passed = {ClampedInto(tool.call.count)}
        /\ tool.passed \subseteq 1..20

\* C20: a tool that reaches the client through the service object, called with
\* valid arguments on an authenticated service whose client operation succeeds,
\* returns status "success" after one invocation of the client operation.
C20_ClientToolSucceeds ==
    (/\ program = "xservice" /\ pc = "tool" /\ authenticated
     /\ tool.call.name \in ClientTools
     /\ ToolArgsValid(tool.call.name, tool.call.arg, tool.call.text, tool.call.mode)
     /\ tool.call.clientOk) =>
        /\ tool.status = "success"
        /\ tool.calls = 1

\* C21: every token comes from a signer invocation that was given the path
\* component of the URL and the upper-cased method, and is used as returned:
\* in the middleware for the request in flight, in the bridge for the data of
\* a get_transaction_id Result.
C21_SignerGetsPathAndUpperMethod ==
    /\ (program = "xservice" /\ inflight # Null /\ signedFor # Null) =>
          /\ signedFor.method = Upper(inflight.method)
          /\ signedFor.path = urlparse_path(inflight.url)
          /\ inflight.headers[TID] = signedFor
    /\ (program = "bridge" /\ nread > 0 /\ CmdAction(cur) = Str("get_transaction_id")
          /\ Len(answers) = 1 /\ answers[1].success) =>
          /\ answers[1].data.method = Upper(CmdArgs(cur)["method"].s)
          /\ answers[1].data.path = urlparse_path(CmdArgs(cur)["url"])

\* startup has completed: the readiness line is out, or initialize_client returned success
StartupDone ==
    (program = "bridge" /\ readyCount = 1) \/ (program = "xservice" /\ authenticated)

\* C22: once startup has completed no step changes, adds or removes an entry of
\* the injected headers other than the transaction token; Cookie and
\* x-csrf-token in particular keep their startup values.
C22_CredentialEntriesFrozen ==
    [][StartupDone =>
          /\ DOMAIN HEADERS_TO_INJECT' \subseteq DOMAIN HEADERS_TO_INJECT \cup {TID}
          /\ \A k \in DOMAIN HEADERS_TO_INJECT \ {TID} :
                k \in DOMAIN HEADERS_TO_INJECT' /\ HEADERS_TO_INJECT'[k] = HEADERS_TO_INJECT[k]
          /\ \A k \in {"Cookie", "x-csrf-token"} \cap DOMAIN HEADERS_TO_INJECT :
                HEADERS_TO_INJECT'[k] = HEADERS_TO_INJECT[k]]_vars

\* a signing command has refreshed the token of a bridge whose injected headers
\* hold the cookie header and the ct0 token
C22_Witness ==
    /\ program = "bridge" /\ readyCount = 1 /\ signCount >= 1 /\ inflight # Null
    /\ {"Cookie", "x-csrf-token", TID} \subseteq DOMAIN HEADERS_TO_INJECT
    /\ HEADERS_TO_INJECT[TID] = signedFor
    /\ HEADERS_TO_INJECT["x-csrf-token"] = Str("c1")

\* C23: the header set of every request in flight is the merge of the injected
\* headers as they stood at the call with that call's caller headers, and on a
\* signed URL it carries the token generated for that call.
C23_AssembledFromOneSnapshot ==
    inflight # Null =>
        /\ Signed(inflight.url) => signedFor # Null
        /\ inflight.headers =
              IF Signed(inflight.url)
              THEN Put(MergeHeaders(HEADERS_TO_INJECT, inflight.caller), TID, signedFor)
              ELSE MergeHeaders(HEADERS_TO_INJECT, inflight.caller)

\* C24: while a signed call of the middleware is with the transport, the
\* process-wide injected headers hold the token generated for that call.
C24_GlobalHoldsLastToken ==
    (program = "xservice" /\ inflight # Null /\ Signed(inflight.url)) =>
        /\ TID \in DOMAIN HEADERS_TO_INJECT
        /\ HEADERS_TO_INJECT[TID] = signedFor

\* C25: a line is read only when every earlier line has its Result on stdout,
\* one line at a time, and the Result last written is the one of the line last
\* read: Results leave in the order the lines came in.
C25_StrictlySequential ==
    [][(program = "bridge" /\ nread' # nread) =>
          /\ nread' = nread + 1
          /\ pc = "read"
          /\ nout = nread
          /\ nread > 0 => (Len(answers) = 1 /\ answers[1].id = CommandId(cur))]_vars

\* the second line is read after a first command that had to await the client
\* was answered
C25_Witness ==
    /\ program = "bridge" /\ nread = 2 /\ nout = 1 /\ pc = "await_http"
    /\ CommandId(cur) = Str("id2") /\ answers = <<>>

\* C26: the service is authenticated only when initialize_client has run through:
\* the service object exists, the class functions were saved and replaced and the
\* transport wrapped, setup_headers has signed its first token and the store
\* holds Cookie, x-csrf-token and the transaction entry. Whenever a tool or a
\* service method has been called on an absent or unauthenticated service, its
\* result has status "error" and the client has not been invoked.
C26_AuthenticatedOnlyWhenInitialized ==
    program = "xservice" =>
        /\ authenticated =>
              /\ x_service = "XService"
              /\ patch.original_twikit_ct_init # "None"
              /\ patch.original_twikit_ct_generate_id # "None"
              /\ patch.http_request = "patched"
              /\ signCount >= 1
              /\ {"Cookie", "x-csrf-token", TID} \subseteq DOMAIN HEADERS_TO_INJECT
        /\ (tool # Null /\ (x_service = "None" \/ ~authenticated)) =>
              /\ tool.status = "error"
              /\ tool.calls = 0

\* a tool and a service method called on a constructed service whose
\* initialisation failed; a tool called while there is no service object
C26_Witness ==
    /\ program = "xservice"
    /\ pc = "tool"
    /\ ~authenticated
    /\ tool.status = "error"
    /\ tool.calls = 0
    /\ \/ x_service = "XService" /\ tool.call.name = "XService.post_tweet"
       \/ x_service = "None" /\ tool.call.name = "post_tweet"

\* C27: after startup the Cookie entry of the injected headers is the joined
\* pairs of the cookie store and the x-csrf-token entry is that store's ct0
\* cookie, whatever the captured common headers contain.
C27_SessionEntriesFromCookieStore ==
    StartupDone =>
        /\ "Cookie" \in DOMAIN HEADERS_TO_INJECT
        /\ "joined" \in DOMAIN HEADERS_TO_INJECT["Cookie"]
        /\ "x-csrf-token" \in DOMAIN HEADERS_TO_INJECT
        /\ HEADERS_TO_INJECT["x-csrf-token"]
             = CookieGet(HEADERS_TO_INJECT["Cookie"].joined, "ct0")

\* a header value some caller of http.request supplies under key k
CallerSupplied(k, v) == \E c \in CallerHeaderChoices : k \in DOMAIN c /\ c[k] = v

C29_OneKeyPerHeaderName ==
    inflight # Null =>
        \A k1, k2 \in DOMAIN inflight.headers : Lower(k1) = Lower(k2) => k1 = k2

\* C30: once cleanup has run after any number of patch_client calls, the
\* library's ClientTransaction.init and generate_transaction_id are the
\* functions installed before the first patch_client; and when the MCP server's
\* main has ended, cleanup has run if the service object was constructed.
C30_CleanupRestoresOriginals ==
    /\ (program = "patcher" /\ pc = "cleaned") =>
          /\ patch.ct_init = Unpatched.ct_init
          /\ patch.ct_generate_id = Unpatched.ct_generate_id
    /\ (program = "xservice" /\ pc = "exited") =>
          /\ x_service # "None" => cleanupRan
          /\ patch.ct_init = Unpatched.ct_init
          /\ patch.ct_generate_id = Unpatched.ct_generate_id
====
